---- MODULE Spec2Model ----
(***************************************************************************)
(* A model of xgboost/BaseTree.py: the recursive tree builder `train`,     *)
(* the split search `select_best_split`, the partitioner `split_dataset`   *)
(* and the predictor `single_predict` / `predict`.                         *)
(*                                                                         *)
(* A DataFrame is a record [columns, index, data]: the column names in     *)
(* order, the index labels of the rows it holds, and one record per row    *)
(* keyed by column name.  A numpy float is a record [kind, num, den]: an   *)
(* exact fraction in lowest terms with den > 0, or den = 0 for what a      *)
(* division by zero yields (inf, -inf, nan).  A Python dict is a record    *)
(* [kind, keys, values] with the keys in insertion order.  A Python str    *)
(* built by str(number) is a sequence of one-character strings.            *)
(***************************************************************************)
EXTENDS Integers, Sequences, FiniteSets, TLC

VARIABLES
    max_depth,          \* self.max_depth
    min_samples_split,  \* self.min_samples_split
    split_threshold,    \* self.split_threshold
    Lambda,             \* self.Lambda
    feature_names,      \* self.feature_names
    G,                  \* self.G
    H,                  \* self.H
    tree,               \* self.tree
    stack,              \* the activation records of train, outermost first
    status,             \* "idle", "running", "returned" or "raised"
    ret,                \* what the last finished top-level train call returned
    calls,              \* number of top-level train calls started
    trainX,             \* the X of the most recent top-level train call
    y_pred,             \* what the last predict call produced
    last_root,          \* history: the root the last top-level call that returned gave back
    visit               \* history: per node (path from the root) what train saw and decided

vars == <<max_depth, min_samples_split, split_threshold, Lambda, feature_names,
          G, H, tree, stack, status, ret, calls, trainX, y_pred, last_root, visit>>

-----------------------------------------------------------------------------
(* Bounds of the model and the sets the inputs are drawn from.             *)

MaxRows == 2
MaxCalls == 2

FeatureColumns == <<"f1", "f2">>
NumFeatures == {0, 1, 2}
FeatureValues == {1, 2}
GValues == {-1, 1}
HValues == {1}
MaxDepthValues == {0, 1, 2}
MinSamplesValues == {0, 1, 2}
SplitThresholdValues == {0, 1}
LambdaValues == {0, 1}

None == [kind |-> "None"]
Unset == [kind |-> "unset"]
IndexError == [kind |-> "error", name |-> "IndexError"]
KeyError == [kind |-> "error", name |-> "KeyError"]
AttributeError == [kind |-> "error", name |-> "AttributeError"]
ValueError == [kind |-> "error", name |-> "ValueError"]

-----------------------------------------------------------------------------
(* numpy floats                                                            *)

Abs(n) == IF n < 0 THEN -n ELSE n

Sign(n) == IF n < 0 THEN -1 ELSE IF n > 0 THEN 1 ELSE 0

RECURSIVE Gcd(_, _)
Gcd(a, b) == IF b = 0 THEN a ELSE Gcd(b, a % b)

\* n / d on numpy scalars: a float; a zero divisor gives inf, -inf or nan
TrueDiv(n, d) ==
    IF d = 0
    THEN [kind |-> "float", num |-> Sign(n), den |-> 0]
    ELSE LET k == Gcd(Abs(n), Abs(d))
         IN  [kind |-> "float", num |-> (Sign(d) * n) \div k, den |-> Abs(d) \div k]

IsNan(a) == a.num = 0 /\ a.den = 0

FloatAdd(a, b) ==
    IF a.den = 0 \/ b.den = 0
    THEN IF IsNan(a) \/ IsNan(b) THEN TrueDiv(0, 0)
         ELSE IF a.den # 0 THEN b
         ELSE IF b.den # 0 THEN a
         ELSE IF a.num = b.num THEN a ELSE TrueDiv(0, 0)
    ELSE TrueDiv(a.num * b.den + b.num * a.den, a.den * b.den)

FloatNeg(a) == [kind |-> "float", num |-> -a.num, den |-> a.den]

FloatSub(a, b) == FloatAdd(a, FloatNeg(b))

\* a < b; every comparison with nan is False
FloatLess(a, b) == ~IsNan(a) /\ ~IsNan(b) /\ a.num * b.den < b.num * a.den

\* a > b
FloatGreater(a, b) == FloatLess(b, a)

\* an integer operand of a comparison with a float
ToFloat(n) == TrueDiv(n, 1)

-----------------------------------------------------------------------------
(* str and float                                                           *)

Digits == <<"0", "1", "2", "3", "4", "5", "6", "7", "8", "9">>

RECURSIVE StrNat(_)
StrNat(n) == IF n < 10 THEN <<Digits[n + 1]>> ELSE StrNat(n \div 10) \o <<Digits[(n % 10) + 1]>>

\* str(n) of an integer
Str(n) == IF n < 0 THEN <<"-">> \o StrNat(-n) ELSE StrNat(n)

DigitValue(c) == CHOOSE d \in 0..9 : Digits[d + 1] = c

IsDigit(c) == \E d \in 0..9 : Digits[d + 1] = c

RECURSIVE ParseNat(_, _)
ParseNat(s, acc) == IF s = <<>> THEN acc ELSE ParseNat(Tail(s), 10 * acc + DigitValue(Head(s)))

\* float(s) of a string of decimal digits with an optional sign
ParseFloat(s) ==
    LET neg == s # <<>> /\ Head(s) = "-"
        body == IF neg THEN Tail(s) ELSE s
    IN  IF body = <<>> \/ \E i \in 1..Len(body) : ~IsDigit(body[i])
        THEN ValueError
        ELSE ToFloat(IF neg THEN -ParseNat(body, 0) ELSE ParseNat(body, 0))

\* s.split('(')[0]: what precedes the first "(" of s
RECURSIVE SplitParenHead(_)
SplitParenHead(s) ==
    IF s = <<>> \/ Head(s) = "(" THEN <<>> ELSE <<Head(s)>> \o SplitParenHead(Tail(s))

-----------------------------------------------------------------------------
(* dict                                                                    *)

EmptyDict == [kind |-> "dict", keys |-> <<>>, values |-> <<>>]

\* d[k] = v: replaces the value of a key already there, appends a new key
DictSet(d, k, v) ==
    IF \E i \in 1..Len(d.keys) : d.keys[i] = k
    THEN [d EXCEPT !.values = [i \in 1..Len(d.keys) |-> IF d.keys[i] = k THEN v ELSE d.values[i]]]
    ELSE [d EXCEPT !.keys = Append(d.keys, k), !.values = Append(d.values, v)]

\* d.get(k)
DictGet(d, k) ==
    IF \E i \in 1..Len(d.keys) : d.keys[i] = k
    THEN d.values[CHOOSE i \in 1..Len(d.keys) : d.keys[i] = k]
    ELSE None

-----------------------------------------------------------------------------
(* DataFrame and ndarray                                                   *)

NRows(X) == Len(X.data)

\* the sum of a column over the first n rows
RECURSIVE ColSumTo(_, _, _)
ColSumTo(X, col, n) == IF n = 0 THEN 0 ELSE ColSumTo(X, col, n - 1) + X.data[n][col]

\* X[col].sum()
ColSum(X, col) == ColSumTo(X, col, NRows(X))

\* the entries of s at the True positions of mask from position i on, in order
RECURSIVE BoolIndexFrom(_, _, _)
BoolIndexFrom(s, mask, i) ==
    IF i > Len(s) THEN <<>>
    ELSE (IF mask[i] THEN <<s[i]>> ELSE <<>>) \o BoolIndexFrom(s, mask, i + 1)

\* s[mask] for a boolean mask
BoolIndex(s, mask) == BoolIndexFrom(s, mask, 1)

\* X[mask]
FrameIndex(X, mask) ==
    [columns |-> X.columns, index |-> BoolIndex(X.index, mask), data |-> BoolIndex(X.data, mask)]

Not(mask) == [i \in 1..Len(mask) |-> ~mask[i]]

\* the values of a set of integers in ascending order
RECURSIVE SortAscending(_)
SortAscending(S) ==
    IF S = {} THEN <<>>
    ELSE LET m == CHOOSE x \in S : \A z \in S : x <= z
         IN  <<m>> \o SortAscending(S \ {m})

\* X[col].drop_duplicates().sort_values(ascending=True)
DistinctSorted(X, col) == SortAscending({X.data[i][col] : i \in 1..NRows(X)})

\* X.columns[:-2]
ColumnsButLastTwo(X) ==
    IF Len(X.columns) <= 2 THEN <<>> ELSE SubSeq(X.columns, 1, Len(X.columns) - 2)

-----------------------------------------------------------------------------
(* split_dataset                                                           *)

\* a variant of GroupIndex: the rows equal to the split value go right
GroupIndexInclusive(X, split_feature, split_value) ==
    [i \in 1..NRows(X) |-> X.data[i][split_feature] >= split_value]

GroupIndex(X, split_feature, split_value) ==
    [i \in 1..NRows(X) |-> X.data[i][split_feature] > split_value]

split_dataset(X, y, split_feature, split_value) ==
    LET group_index == GroupIndex(X, split_feature, split_value)
    IN  << [X |-> FrameIndex(X, Not(group_index)), y |-> BoolIndex(y, Not(group_index))],
           [X |-> FrameIndex(X, group_index), y |-> BoolIndex(y, group_index)] >>

-----------------------------------------------------------------------------
(* select_best_split                                                       *)

\* X[X[candidate_feature] == candidate_value]
RowsEqual(X, candidate_feature, candidate_value) ==
    FrameIndex(X, [i \in 1..NRows(X) |-> X.data[i][candidate_feature] = candidate_value])

\* a variant of Accumulate: the sum starts again at every candidate value
AccumulateFromZero(acc, X, candidate_feature, candidate_value, col) ==
    ColSum(RowsEqual(X, candidate_feature, candidate_value), col)

\* G_l += X[X[candidate_feature] == candidate_value]["g"].sum(), and the same for h
Accumulate(acc, X, candidate_feature, candidate_value, col) ==
    acc + ColSum(RowsEqual(X, candidate_feature, candidate_value), col)

\* the inner loop over the candidate values of one feature: the running sums
\* after each value, in the order the loop sees them
RECURSIVE ScanValues(_, _, _, _, _)
ScanValues(X, candidate_feature, values, G_l, H_l) ==
    IF values = <<>> THEN <<>>
    ELSE LET candidate_value == Head(values)
             gl == Accumulate(G_l, X, candidate_feature, candidate_value, "g")
             hl == Accumulate(H_l, X, candidate_feature, candidate_value, "h")
         IN  << [feature |-> candidate_feature, value |-> candidate_value,
                 G_l |-> gl, H_l |-> hl, G_r |-> G - gl, H_r |-> H - hl] >>
             \o ScanValues(X, candidate_feature, Tail(values), gl, hl)

\* the outer loop over self.feature_names
RECURSIVE ScanFeatures(_, _)
ScanFeatures(X, names) ==
    IF names = <<>> THEN <<>>
    ELSE ScanValues(X, Head(names), DistinctSorted(X, Head(names)), 0, 0)
         \o ScanFeatures(X, Tail(names))

\* if -self.Lambda not in (H_l, H_r, self.H)
DenominatorsOk(e) == -Lambda \notin {e.H_l, e.H_r, H}

GainOf(e) ==
    FloatSub(FloatAdd(TrueDiv(e.G_l * e.G_l, e.H_l + Lambda),
                      TrueDiv(e.G_r * e.G_r, e.H_r + Lambda)),
             TrueDiv(G * G, H + Lambda))

\* gain_ls after the two loops
GainList(scan) ==
    LET kept == SelectSeq(scan, DenominatorsOk)
    IN  [i \in 1..Len(kept) |->
            [feature |-> kept[i].feature, value |-> kept[i].value, gain |-> GainOf(kept[i])]]

\* a variant of Better: an equal gain replaces the best so far
BetterOrEqual(candidate, best) == ~FloatLess(candidate.gain, best.gain)

\* if gain_ls[i][2] > gain_ls[best_index][2]
Better(candidate, best) == FloatGreater(candidate.gain, best.gain)

\* the loop of lines 158-160; indices are 1-based here
RECURSIVE BestIndexLoop(_, _, _)
BestIndexLoop(gain_ls, i, best_index) ==
    IF i > Len(gain_ls) THEN best_index
    ELSE BestIndexLoop(gain_ls, i + 1,
                       IF Better(gain_ls[i], gain_ls[best_index]) THEN i ELSE best_index)

\* return gain_ls[best_index]; indexing an empty list raises IndexError
select_best_split(gain_ls) ==
    IF gain_ls = <<>> THEN IndexError ELSE gain_ls[BestIndexLoop(gain_ls, 1, 1)]

-----------------------------------------------------------------------------
(* single_predict and predict                                              *)

\* a variant of GoesRight: a row equal to the threshold goes right
GoesRightInclusive(x, feature_name, split_value) ==
    ~FloatLess(ToFloat(x[feature_name]), ParseFloat(split_value))

\* if x[feature_name] > float(split_value)
GoesRight(x, feature_name, split_value) ==
    FloatGreater(ToFloat(x[feature_name]), ParseFloat(split_value))

RECURSIVE single_predict(_, _)
single_predict(x, t) ==
    IF t.kind = "float" THEN t
    ELSE IF t.kind # "dict" THEN AttributeError
    ELSE LET feature_name == t.keys[1]
             branches == DictGet(t, feature_name)
             left == branches.values[1]
             right == branches.values[2]
             split_value == SplitParenHead(branches.keys[1])
         IN  IF feature_name \notin DOMAIN x THEN KeyError
             ELSE IF GoesRight(x, feature_name, split_value)
                  THEN single_predict(x, right)
                  ELSE single_predict(x, left)

predict(X) ==
    LET res == [i \in 1..NRows(X) |-> single_predict(X.data[i], tree)]
    IN  IF \E i \in 1..Len(res) : res[i].kind = "error"
        THEN res[CHOOSE i \in 1..Len(res) : res[i].kind = "error" /\ \A j \in 1..(i - 1) : res[j].kind # "error"]
        ELSE [kind |-> "ndarray", values |-> res]

-----------------------------------------------------------------------------
(* train                                                                   *)

Top == stack[Len(stack)]

\* where a node sits: the call sites ("l" for line 124, "r" for line 125) from the root
Path(stk) == [i \in 1..(Len(stk) - 1) |-> stk[i + 1].site]

Frame(X, y, depth, site) ==
    [X |-> X, y |-> y, depth |-> depth, site |-> site, pc |-> "enter",
     best |-> None, left |-> None, right |-> None, tree |-> None]

ReplaceTop(fr) == [stack EXCEPT ![Len(stack)] = fr]

\* a variant of DepthLimit: the limit bites one level too late
DepthLimitLate(depth) == depth > max_depth + 1

\* if depth > self.max_depth
DepthLimit(depth) == depth > max_depth

\* if X.shape[0] < self.min_samples_split
SampleFloor(X) == NRows(X) < min_samples_split

\* a variant of GainFloor: a gain equal to the threshold stops the node too
GainFloorInclusive(gain) == ~FloatGreater(gain, ToFloat(split_threshold))

\* if gain < self.split_threshold
GainFloor(gain) == FloatLess(gain, ToFloat(split_threshold))

\* -self.G / (self.H + self.Lambda)
LeafValue == TrueDiv(-G, H + Lambda)

\* str(best_value) + "(l)" and str(best_value) + "(r)"
BranchKey(best_value, site) == Str(best_value) \o <<"(", site, ")">>

\* self.tree = value; return value.  The caller stores it under the branch key
\* of the call site and goes on; the outermost call hands it to its caller.
Return(value) ==
    /\ tree' = value
    /\ IF Len(stack) = 1
       THEN /\ stack' = <<>>
            /\ status' = "returned"
            /\ ret' = value
            /\ last_root' = value
       ELSE LET caller == stack[Len(stack) - 1]
                site == Top.site
                inner == DictGet(caller.tree, caller.best.feature)
                stored == DictSet(caller.tree, caller.best.feature,
                                  DictSet(inner, BranchKey(caller.best.value, site), value))
            IN  /\ stack' = Append(SubSeq(stack, 1, Len(stack) - 2),
                                   [caller EXCEPT !.tree = stored,
                                                  !.pc = IF site = "l" THEN "call_right" ELSE "finish"])
                /\ UNCHANGED <<status, ret, last_root>>

\* an exception nobody catches unwinds every activation of train
Raise(exc) ==
    /\ stack' = <<>>
    /\ status' = "raised"
    /\ ret' = exc
    /\ UNCHANGED <<tree, last_root>>

Visited(fr, rule, scan, gain_ls, best) ==
    [X |-> fr.X, y |-> fr.y, depth |-> fr.depth, G |-> G', H |-> H', rule |-> rule,
     scan |-> scan, gain_ls |-> gain_ls, best |-> best]

Log(fr, rule, scan, gain_ls, best) ==
    visit' = [p \in (DOMAIN visit) \cup {Path(stack)} |->
                 IF p = Path(stack) THEN Visited(fr, rule, scan, gain_ls, best) ELSE visit[p]]

\* a variant of EntrySums: the sums are taken at the root and carried into
\* the recursive calls
EntrySumsCarried(X, depth) == IF depth = 1 THEN <<ColSum(X, "g"), ColSum(X, "h")>> ELSE <<G, H>>

\* self.G = X["g"].sum(); self.H = X["h"].sum()
EntrySums(X, depth) == <<ColSum(X, "g"), ColSum(X, "h")>>

\* lines 82-102: the head of train up to the two stopping rules
Enter ==
    /\ status = "running"
    /\ Top.pc = "enter"
    /\ feature_names' = IF Top.depth = 1 THEN ColumnsButLastTwo(Top.X) ELSE feature_names
    /\ G' = EntrySums(Top.X, Top.depth)[1]
    /\ H' = EntrySums(Top.X, Top.depth)[2]
    /\ UNCHANGED <<max_depth, min_samples_split, split_threshold, Lambda,
                   calls, trainX, y_pred>>
    /\ IF DepthLimit(Top.depth)
       THEN /\ Return(LeafValue')
            /\ Log(Top, "depth", <<>>, <<>>, None)
       ELSE IF SampleFloor(Top.X)
       THEN /\ Return(LeafValue')
            /\ Log(Top, "samples", <<>>, <<>>, None)
       ELSE /\ stack' = ReplaceTop([Top EXCEPT !.pc = "search"])
            /\ Log(Top, "open", <<>>, <<>>, None)
            /\ UNCHANGED <<tree, status, ret, last_root>>

\* lines 105-124: split search, the gain floor, the partition and the call
\* that builds the left subtree
Search ==
    /\ status = "running"
    /\ Top.pc = "search"
    /\ UNCHANGED <<max_depth, min_samples_split, split_threshold, Lambda, feature_names,
                   G, H, calls, trainX, y_pred>>
    /\ LET scan == ScanFeatures(Top.X, feature_names)
           gain_ls == GainList(scan)
           best == select_best_split(gain_ls)
       IN  IF best = IndexError
           THEN /\ Raise(IndexError)
                /\ Log(Top, "error", scan, gain_ls, None)
           ELSE IF GainFloor(best.gain)
           THEN /\ Return(LeafValue)
                /\ Log(Top, "gain", scan, gain_ls, best)
           ELSE LET parts == split_dataset(Top.X, Top.y, best.feature, best.value)
                    me == [Top EXCEPT !.pc = "wait_left", !.best = best,
                                      !.left = parts[1], !.right = parts[2],
                                      !.tree = DictSet(EmptyDict, best.feature, EmptyDict)]
                IN  /\ stack' = Append(ReplaceTop(me),
                                       Frame(parts[1].X, parts[1].y, Top.depth + 1, "l"))
                    /\ Log(Top, "split", scan, gain_ls, best)
                    /\ UNCHANGED <<tree, status, ret, last_root>>

\* line 125: the call that builds the right subtree
CallRight ==
    /\ status = "running"
    /\ Top.pc = "call_right"
    /\ stack' = Append(ReplaceTop([Top EXCEPT !.pc = "wait_right"]),
                       Frame(Top.right.X, Top.right.y, Top.depth + 1, "r"))
    /\ UNCHANGED <<max_depth, min_samples_split, split_threshold, Lambda, feature_names,
                   G, H, tree, status, ret, calls, trainX, y_pred, last_root, visit>>

\* lines 127-129: self.tree = tree; return tree
Finish ==
    /\ status = "running"
    /\ Top.pc = "finish"
    /\ Return(Top.tree)
    /\ UNCHANGED <<max_depth, min_samples_split, split_threshold, Lambda, feature_names,
                   G, H, calls, trainX, y_pred, visit>>

\* the data frames a caller may pass: nf feature columns then g and h, n rows
Columns(nf) == SubSeq(FeatureColumns, 1, nf) \o <<"g", "h">>

ColumnValues(c) == IF c = "g" THEN GValues ELSE IF c = "h" THEN HValues ELSE FeatureValues

RowValues(nf) ==
    {r \in [{Columns(nf)[k] : k \in 1..(nf + 2)} -> FeatureValues \cup GValues \cup HValues] :
        \A c \in DOMAIN r : r[c] \in ColumnValues(c)}

DataFrames(nfs, maxrows) ==
    UNION {UNION {{[columns |-> Columns(nf), index |-> [i \in 1..n |-> i], data |-> d] :
                      d \in [1..n -> RowValues(nf)]} : n \in 0..maxrows} : nf \in nfs}

\* the label of the row with index label i
Label(i) == 10 + i

Labels(X) == [i \in 1..NRows(X) |-> Label(X.index[i])]

\* a top-level call train(X, y)
Train(X, y) ==
    /\ status # "running"
    /\ stack' = <<Frame(X, y, 1, "root")>>
    /\ status' = "running"
    /\ ret' = None
    /\ calls' = calls + 1
    /\ trainX' = X
    /\ visit' = <<>>
    /\ UNCHANGED <<max_depth, min_samples_split, split_threshold, Lambda, feature_names,
                   G, H, tree, y_pred, last_root>>

\* predict(X) on the rows last trained on
Predict ==
    /\ status \in {"returned", "raised"}
    /\ y_pred' = predict(trainX)
    /\ UNCHANGED <<max_depth, min_samples_split, split_threshold, Lambda, feature_names,
                   G, H, tree, stack, status, ret, calls, trainX, last_root, visit>>

\* __init__, before any call of train.  The attributes train creates
\* (feature_names, G, H) hold an empty and a zero value here: nothing reads
\* them before lines 84-88 have set them.  self.tree does not exist yet.
Init ==
    /\ max_depth \in MaxDepthValues
    /\ min_samples_split \in MinSamplesValues
    /\ split_threshold \in SplitThresholdValues
    /\ Lambda \in LambdaValues
    /\ feature_names = <<>>
    /\ G = 0
    /\ H = 0
    /\ tree = Unset
    /\ stack = <<>>
    /\ status = "idle"
    /\ ret = None
    /\ calls = 0
    /\ trainX = None
    /\ y_pred = None
    /\ last_root = Unset
    /\ visit = <<>>

Step == Enter \/ Search \/ CallRight \/ Finish

\* one training run
Next ==
    \/ (calls = 0 /\ \E X \in DataFrames(NumFeatures, MaxRows) : Train(X, Labels(X)))
    \/ Step
    \/ Predict

Spec == Init /\ [][Next]_vars

\* training again on the same object, on frames with one feature column
NextRetrain ==
    \/ (calls < MaxCalls /\ \E X \in DataFrames({1}, MaxRows) : Train(X, Labels(X)))
    \/ Step
    \/ Predict

SpecRetrain == Init /\ [][NextRetrain]_vars

\* the scenario of one feature over ten rows, f1 = 1..10, with g and h
\* constant over the rows with f1 <= 5 and over the rows with f1 > 5
ScenarioFrame(g_low, g_high, h_low, h_high) ==
    [columns |-> <<"f1", "g", "h">>,
     index |-> [i \in 1..10 |-> i],
     data |-> [i \in 1..10 |-> [f1 |-> i,
                                 g |-> IF i <= 5 THEN g_low ELSE g_high,
                                 h |-> IF i <= 5 THEN h_low ELSE h_high]]]

\* BaseTree(max_depth=3, min_samples_split=2, split_threshold=0, gamma=0, Lambda=1)
InitScenario ==
    /\ max_depth = 3
    /\ min_samples_split = 2
    /\ split_threshold = 0
    /\ Lambda = 1
    /\ feature_names = <<>>
    /\ G = 0
    /\ H = 0
    /\ tree = Unset
    /\ stack = <<>>
    /\ status = "idle"
    /\ ret = None
    /\ calls = 0
    /\ trainX = None
    /\ y_pred = None
    /\ last_root = Unset
    /\ visit = <<>>

NextScenario ==
    \/ (calls = 0 /\ \E g_low \in {-2, -1}, g_high \in {1, 2}, h_low \in {1, 2}, h_high \in {1, 2} :
            Train(ScenarioFrame(g_low, g_high, h_low, h_high),
                  Labels(ScenarioFrame(g_low, g_high, h_low, h_high))))
    \/ Step
    \/ Predict

SpecScenario == InitScenario /\ [][NextScenario]_vars

-----------------------------------------------------------------------------
(* What the properties below are stated with.  None of it is used by the   *)
(* actions above.                                                          *)

LeafRules == {"depth", "samples", "gain"}

\* the node of a built tree at a path: "l" is the first stored child of a
\* decision node and "r" the second
RECURSIVE NodeAt(_, _)
NodeAt(t, p) ==
    IF p = <<>> THEN t
    ELSE NodeAt(t.values[1].values[IF Head(p) = "l" THEN 1 ELSE 2], Tail(p))

\* the sum of a column of the frame passed to train over a set of index labels
RECURSIVE SumOver(_, _)
SumOver(S, col) ==
    IF S = {} THEN 0
    ELSE LET i == CHOOSE k \in S : TRUE
         IN  trainX.data[i][col] + SumOver(S \ {i}, col)

IndexSet(X) == {X.index[i] : i \in 1..NRows(X)}

\* v is the float -g / (h + Lambda)
IsNewtonStep(v, g, h) ==
    /\ v.kind = "float"
    /\ IF h + Lambda = 0
       THEN v.den = 0 /\ v.num = Sign(-g)
       ELSE v.den > 0 /\ v.num * (h + Lambda) = (-g) * v.den

\* the j-th smallest element of a set of positions
Nth(S, j) == CHOOSE i \in S : Cardinality({k \in S : k < i}) = j - 1

\* part holds exactly the rows of X at the positions keep, in X's order, each
\* with its own label
IsSide(X, y, part, keep) ==
    /\ part.X.columns = X.columns
    /\ NRows(part.X) = Cardinality(keep)
    /\ Len(part.X.index) = Cardinality(keep)
    /\ Len(part.y) = Cardinality(keep)
    /\ \A j \in 1..Cardinality(keep) :
          /\ part.X.index[j] = X.index[Nth(keep, j)]
          /\ part.X.data[j] = X.data[Nth(keep, j)]
          /\ part.y[j] = y[Nth(keep, j)]
          /\ part.y[j] = Label(part.X.index[j])

\* a >= b for a finite float a and an integer b
AtLeast(a, b) == a.den > 0 /\ a.num >= b * a.den

-----------------------------------------------------------------------------
-----------------------------------------------------------------------------
(* C2: the rows passed to the left call are exactly the node's rows with   *)
(* feature value <= threshold, those passed to the right call exactly the  *)
(* rows with feature value > threshold; no row is lost or duplicated, the  *)
(* order is kept on each side and each label stays with its row.           *)
C2_Partition ==
    \A p \in DOMAIN visit :
        visit[p].rule = "split" =>
            LET n == visit[p]
                f == n.best.feature
                v == n.best.value
                l == Append(p, "l")
                r == Append(p, "r")
            IN  /\ l \in DOMAIN visit =>
                      IsSide(n.X, n.y, visit[l], {i \in 1..NRows(n.X) : n.X.data[i][f] <= v})
                /\ r \in DOMAIN visit =>
                      /\ IsSide(n.X, n.y, visit[r], {i \in 1..NRows(n.X) : n.X.data[i][f] > v})
                      /\ IndexSet(visit[l].X) \cap IndexSet(visit[r].X) = {}
                      /\ IndexSet(visit[l].X) \cup IndexSet(visit[r].X) = IndexSet(n.X)
                      /\ NRows(visit[l].X) + NRows(visit[r].X) = NRows(n.X)

\* both calls of the root were made, each side got a row, and the row that
\* went left comes after the row that went right in the node's frame
C2_Witness ==
    /\ <<"l">> \in DOMAIN visit
    /\ <<"r">> \in DOMAIN visit
    /\ NRows(visit[<<"l">>].X) > 0
    /\ NRows(visit[<<"r">>].X) > 0
    /\ visit[<<"l">>].X.index[1] > visit[<<"r">>].X.index[1]

-----------------------------------------------------------------------------
-----------------------------------------------------------------------------
(* C4: select_best_split returns the candidate of gain_ls whose gain is    *)
(* the maximum, and among candidates of equal maximum gain the first in    *)
(* enumeration order (features in column order, values ascending within a  *)
(* feature).                                                               *)

\* a < b and a <= b for finite floats, by cross-multiplication
Below(a, b) == a.num * b.den < b.num * a.den

NotAbove(a, b) == a.num * b.den <= b.num * a.den

ColumnPosition(X, c) == CHOOSE k \in 1..Len(X.columns) : X.columns[k] = c

-----------------------------------------------------------------------------
(* C5: when split search has no valid candidate, select_best_split raises  *)
(* an explicit ConfigurationError instead of indexing the empty list.      *)
C5_ExplicitError ==
    \A p \in DOMAIN visit :
        visit[p].rule = "error" =>
            ret = [kind |-> "error", name |-> "ConfigurationError"]

-----------------------------------------------------------------------------
(* C9: in select_best_split, for every feature and every distinct value v  *)
(* of it in the node's rows, the running sums (G_l, H_l) are the sums of g *)
(* and h over exactly the rows split_dataset puts on the left for (f, v),  *)
(* and (G - G_l, H - H_l) the sums over the rows it puts on the right; the *)
(* candidate is emitted unless H_l, H_r or H equals -Lambda.               *)

Emitted(X, e) ==
    LET parts == split_dataset(X, [i \in 1..NRows(X) |-> 0], e.feature, e.value)
    IN  -Lambda \notin {SumOver(IndexSet(parts[1].X), "h"),
                        SumOver(IndexSet(parts[2].X), "h"),
                        SumOver(IndexSet(X), "h")}

C9_RunningSums ==
    \A p \in DOMAIN visit :
        LET n == visit[p]
            names == SubSeq(n.X.columns, 1, Len(n.X.columns) - 2)
            pairs == {<<names[k], n.X.data[i][names[k]]>> : k \in 1..Len(names), i \in 1..NRows(n.X)}
            kept == {i \in 1..Len(n.scan) : Emitted(n.X, n.scan[i])}
        IN  n.rule \in {"gain", "split", "error"} =>
               /\ {<<n.scan[i].feature, n.scan[i].value>> : i \in 1..Len(n.scan)} = pairs
               /\ Len(n.scan) = Cardinality(pairs)
               /\ \A i \in 1..Len(n.scan) :
                     LET e == n.scan[i]
                         parts == split_dataset(n.X, n.y, e.feature, e.value)
                     IN  /\ e.G_l = SumOver(IndexSet(parts[1].X), "g")
                         /\ e.H_l = SumOver(IndexSet(parts[1].X), "h")
                         /\ e.G_r = SumOver(IndexSet(parts[2].X), "g")
                         /\ e.H_r = SumOver(IndexSet(parts[2].X), "h")
               /\ Len(n.gain_ls) = Cardinality(kept)
               /\ \A j \in 1..Cardinality(kept) :
                     /\ n.gain_ls[j].feature = n.scan[Nth(kept, j)].feature
                     /\ n.gain_ls[j].value = n.scan[Nth(kept, j)].value

\* a search over a feature with two values: the first candidate has rows on
\* both sides and is emitted, the last one, whose right side is empty, is
\* filtered
C9_Witness ==
    \E p \in DOMAIN visit :
        LET n == visit[p]
        IN  /\ n.rule \in {"gain", "split"}
            /\ Len(n.gain_ls) < Len(n.scan)
            /\ \E i \in 1..Len(n.scan) :
                  /\ n.scan[i].G_l # 0
                  /\ n.scan[i].G_r # 0
                  /\ n.scan[i].G_l # n.scan[i].G_r

-----------------------------------------------------------------------------
(* C7: for every tree train returned and every row of the training set,    *)
(* single_predict returns the value of the leaf whose training partition   *)
(* held the row; the threshold read back from the branch key is the one    *)
(* split_dataset used and the first and second stored children are the     *)
(* left and right subtrees.                                                *)
C7_PredictMirrorsTraining ==
    (status = "returned" /\ y_pred # None) =>
        /\ tree = ret
        /\ y_pred.kind = "ndarray"
        /\ Len(y_pred.values) = NRows(trainX)
        /\ \A i \in 1..NRows(trainX) :
              \E p \in DOMAIN visit :
                 /\ visit[p].rule \in LeafRules
                 /\ trainX.index[i] \in IndexSet(visit[p].X)
                 /\ y_pred.values[i] = NodeAt(ret, p)
        /\ \A p \in DOMAIN visit :
              visit[p].rule = "split" =>
                 LET d == NodeAt(ret, p)
                     best == visit[p].best
                 IN  /\ d.keys = <<best.feature>>
                     /\ Len(d.values[1].keys) = 2
                     /\ \A k \in 1..2 :
                           ParseFloat(SplitParenHead(d.values[1].keys[k])) = ToFloat(best.value)

\* a prediction over the training rows of a returned tree that sent two rows
\* to leaves of different values
C7_Witness ==
    /\ status = "returned"
    /\ y_pred # None
    /\ ret.kind = "dict"
    /\ \E i, j \in 1..NRows(trainX) : y_pred.values[i] # y_pred.values[j]

-----------------------------------------------------------------------------
(* C10: every top-level train call ends, by returning or by raising, also  *)
(* when a split sends every row to one side; the recursion is never deeper *)
(* than max_depth + 1, no decision node lies deeper than max_depth (the    *)
(* root has depth 1), and a root-to-leaf path of a returned tree has at    *)
(* most max_depth decision nodes.                                          *)

\* the largest number of decision nodes on a path from the root to a leaf
RECURSIVE Height(_)
Height(t) ==
    IF t.kind # "dict" THEN 0
    ELSE LET l == Height(t.values[1].values[1])
             r == Height(t.values[1].values[2])
         IN  1 + (IF l > r THEN l ELSE r)

\* the most steps a call entered at depth d can take: a leaf takes one; a
\* decision node takes four of its own and its two calls
RECURSIVE StepsOfCall(_)
StepsOfCall(d) == IF d > max_depth THEN 1 ELSE 4 + 2 * StepsOfCall(d + 1)

\* the steps an activation still has to take itself and in calls it has not made yet
StepsLeft(fr) ==
    IF fr.pc = "enter" THEN StepsOfCall(fr.depth)
    ELSE IF fr.pc = "search" THEN StepsOfCall(fr.depth) - 1
    ELSE IF fr.pc \in {"wait_left", "call_right"} THEN 2 + StepsOfCall(fr.depth + 1)
    ELSE 1

RECURSIVE StepsLeftTo(_)
StepsLeftTo(n) == IF n = 0 THEN 0 ELSE StepsLeftTo(n - 1) + StepsLeft(stack[n])

\* a bound on the steps the running call can still take
Remaining == StepsLeftTo(Len(stack))

DepthBounded ==
    /\ Len(stack) <= max_depth + 1
    /\ status = "running" <=> stack # <<>>
    /\ status = "running" => Top.pc \in {"enter", "search", "call_right", "finish"}
    /\ \A i \in 1..Len(stack) : stack[i].depth = i
    /\ \A p \in DOMAIN visit :
          /\ visit[p].depth = Len(p) + 1
          /\ visit[p].rule = "split" => visit[p].depth <= max_depth
    /\ status = "returned" => Height(ret) <= max_depth

-----------------------------------------------------------------------------
(* C8: after any sequence of top-level train calls self.tree is the root   *)
(* the most recent call returned: never a subtree or leaf the recursive    *)
(* calls left behind, never the root of an earlier call.                   *)
C8_StoredTreeIsLatestRoot ==
    /\ status = "returned" => tree = ret /\ ret = last_root
    /\ status \in {"returned", "raised"} => tree = last_root

-----------------------------------------------------------------------------
(* C6: with max_depth=3, min_samples_split=2, split_threshold=0, Lambda=1, *)
(* ten rows of one feature f1 = 1..10, g and h constant on f1 <= 5 and on  *)
(* f1 > 5.                                                                 *)

\* the number of decision nodes of a tree
RECURSIVE InternalNodes(_)
InternalNodes(t) ==
    IF t.kind # "dict" THEN 0
    ELSE 1 + InternalNodes(t.values[1].values[1]) + InternalNodes(t.values[1].values[2])

\* t is a decision node on f1 with the given branch keys
SplitsOn(t, key_l, key_r) ==
    /\ t.kind = "dict"
    /\ t.keys = <<"f1">>
    /\ t.values[1].keys = <<key_l, key_r>>

====
